---- MODULE Spec2Model ----
(***************************************************************************)
(* A model of openadapt/share.py (send_recording, receive_recording,       *)
(* visualize_recording and the filename codec they use) and of             *)
(* puterbot/strategies/llm_mixin.py (get_completion).                      *)
(*                                                                         *)
(* Text is modelled as a sequence of one-character strings, so that the    *)
(* regular expression, int() and the f-strings work on characters.         *)
(***************************************************************************)
EXTENDS Integers, Sequences, FiniteSets, TLC

\* ------------------------------------------------------------------ bounds
\* send/receive/visualize calls made one after the other on the same disk
MaxCalls == 2
\* timestamps the database export collaborator may put in a file name
MaxExportTs == 11
\* recording ids and timestamps of the codec round trip
MaxId == 12
MaxTimestamp == 120
\* length of a digit run in the file names given to the codec
MaxDigits == 2
\* length of a prompt, and the largest configured model_max_length
MaxPromptLen == 4

\* -------------------------------------------------------------- characters
DigitChars == <<"0", "1", "2", "3", "4", "5", "6", "7", "8", "9">>

Digit == {DigitChars[i] : i \in 1..10}

RecordingLit == <<"r", "e", "c", "o", "r", "d", "i", "n", "g", "_">>

DotDb == <<".", "d", "b">>

DotZip == <<".", "z", "i", "p">>

\* "recording.zip", the fixed name of the received archive
RecordingZipName == <<"r", "e", "c", "o", "r", "d", "i", "n", "g">> \o DotZip

HasPrefix(s, p) == Len(s) >= Len(p) /\ SubSeq(s, 1, Len(p)) = p

RECURSIVE DigitRun(_, _)
\* \d+ is greedy: the number of consecutive digits of s from position i on.
\* Backtracking to a shorter run never helps this pattern, because the
\* character required after a run ("_" or ".") is not a digit.
DigitRun(s, i) ==
  IF i <= Len(s) /\ s[i] \in Digit THEN 1 + DigitRun(s, i + 1) ELSE 0

\* re.match(r"recording_\d+_(\d+)\.db", filename): anchored at the start of
\* the string only; whatever follows the matched text is ignored.
re_match(filename) ==
  LET i1 == Len(RecordingLit) + 1
      n1 == DigitRun(filename, i1)
      i2 == i1 + n1
      n2 == DigitRun(filename, i2 + 1)
      i3 == i2 + 1 + n2
  IN  IF /\ HasPrefix(filename, RecordingLit)
         /\ n1 >= 1
         /\ i2 <= Len(filename)
         /\ filename[i2] = "_"
         /\ n2 >= 1
         /\ HasPrefix(SubSeq(filename, i3, Len(filename)), DotDb)
      THEN [matched |-> TRUE,
            group0 |-> SubSeq(filename, 1, i3 + Len(DotDb) - 1),
            group1 |-> SubSeq(filename, i2 + 1, i3 - 1)]
      ELSE [matched |-> FALSE, group0 |-> <<>>, group1 |-> <<>>]

DigitVal(c) == (CHOOSE i \in 1..10 : DigitChars[i] = c) - 1

RECURSIVE PyInt(_)
\* int(s) for a non-empty string of decimal digits (unbounded integers)
PyInt(s) ==
  IF Len(s) = 0 THEN 0
  ELSE 10 * PyInt(SubSeq(s, 1, Len(s) - 1)) + DigitVal(s[Len(s)])

RECURSIVE PyStr(_)
\* str(n), as the f-string formats a non-negative int
PyStr(n) ==
  IF n < 10 THEN <<DigitChars[n + 1]>>
  ELSE PyStr(n \div 10) \o <<DigitChars[(n % 10) + 1]>>

\* Variant: the value is taken from the first digit group (the id).
extract_timestamp_first_group(filename) ==
  LET m == re_match(filename)
      n1 == DigitRun(filename, Len(RecordingLit) + 1)
  IN  IF m.matched
      THEN [ok |-> TRUE,
            value |-> PyInt(SubSeq(filename, Len(RecordingLit) + 1,
                                   Len(RecordingLit) + n1))]
      ELSE [ok |-> FALSE, value |-> 0]

\* The result of the call: ok with the int, or not ok (ValueError raised).
extract_timestamp_from_filename(filename) ==
  LET m == re_match(filename)
  IN  IF m.matched
      THEN [ok |-> TRUE, value |-> PyInt(m.group1)]
      ELSE [ok |-> FALSE, value |-> 0]

db_filename(id, ts) ==
  RecordingLit \o PyStr(id) \o <<"_">> \o PyStr(ts) \o DotDb

zip_filename(id, ts) ==
  RecordingLit \o PyStr(id) \o <<"_">> \o PyStr(ts) \o DotZip


\* ------------------------------------------------------------------- state
VARIABLES
  pc,                \* position in the running call ("idle", ..., "done")
  op,                \* the function being run
  calls,             \* calls started so far
  files,             \* the disk: a set of [path, kind, entries]
  recording_id,      \* send_recording: argument
  recording_db_path, \* export_recording_to_folder: local
  timestamp,         \* export_recording_to_folder: local
  zip_file_path,     \* send_recording / receive_recording: the archive path
  sent,              \* send_file invocations of this call, with the disk then
  receive_outcome,   \* receive_recording: how the wormhole receive ended
  extract_attempted, \* receive_recording: ZipFile(...).extractall was reached
  environ,           \* os.environ["DB_FNAME"], PyNone when unset
  dotenv,            \* the value config.persist_env wrote last
  old_val,           \* visualize_recording: local
  env_before,        \* os.environ["DB_FNAME"] when the call began
  exc,               \* the exception propagating in the call, or NoExc
  result,            \* "none" | "returned" | "raised"
  logged,            \* exceptions given to logger.exception in this call
  filename,          \* extract_timestamp_from_filename: argument
  decoded,           \* extract_timestamp_from_filename: outcome
  model_max_length,  \* LLMReplayStrategyMixin.model_max_length
  prompt,            \* get_completion: argument
  tokenizer_prompt,  \* get_completion: what self.tokenizer was called with
  completion         \* get_completion: return value

vars ==
  <<pc, op, calls, files, recording_id, recording_db_path, timestamp,
    zip_file_path, sent, receive_outcome, extract_attempted, environ,
    dotenv, old_val, env_before, exc, result, logged, filename, decoded, model_max_length,
    prompt, tokenizer_prompt, completion>>

sendVars == <<recording_id, recording_db_path, timestamp, sent>>

recvVars == <<receive_outcome, extract_attempted>>

envVars == <<environ, dotenv, old_val, env_before>>

codecVars == <<filename, decoded>>

llmVars == <<model_max_length, prompt, tokenizer_prompt, completion>>

PyNone == "<None>"

NoExc == "none"

NoPath == [dir |-> "", name |-> <<>>]

NoDecoded == [ok |-> FALSE, value |-> 0]

\* ---------------------------------------------------------------- the disk
Path(dir, name) == [dir |-> dir, name |-> name]

File(path, kind, entries) == [path |-> path, kind |-> kind, entries |-> entries]

Exists(disk, path) == \E f \in disk : f.path = path

FileAt(disk, path) == CHOOSE f \in disk : f.path = path

\* open(path, "w") and write: replaces what was at the path
WriteFile(disk, path, kind, entries) ==
  {f \in disk : f.path # path} \cup {File(path, kind, entries)}

\* os.remove(path)
RemoveFile(disk, path) == {f \in disk : f.path # path}

RECURSIVE ExtractAll(_, _, _)
\* ZipFile.extractall(dir): every entry becomes a file of the directory
ExtractAll(disk, dir, entries) ==
  IF entries = <<>> THEN disk
  ELSE ExtractAll(WriteFile(disk, Path(dir, Head(entries)), "db", <<>>),
                  dir, Tail(entries))

RecordingsDir == "RECORDING_DIRECTORY_PATH"

RootDir == "ROOT_DIRPATH"

\* ------------------------------------------------------------- the inputs
RecordingIds == {1, MaxId}

\* The names db.export_recording may give the exported database: the
\* documented recording_<id>_<timestamp>.db, and names that differ from it.
ExportNames(id) ==
  {db_filename(id, ts) : ts \in {0, 7, MaxExportTs}}
    \cup {RecordingLit \o PyStr(id) \o <<"_", "0", "7">> \o DotDb,
          db_filename(id, 7) \o <<".", "b", "a", "k">>,
          db_filename(id + 1, 7),
          RecordingLit \o PyStr(id) \o DotDb}

EnvValues == {PyNone, "openadapt.db", "old.db"}

DbNames == {"openadapt.db", "recording_1_7.db"}

\* What except Exception catches: every exception modelled here derives
\* from Exception.
ExceptionClasses ==
  {"Exception", "FileNotFoundError", "ValueError", "OSError",
   "AssertionError", "BadZipFile", "TypeError", "CalledProcessError"}

\* ----------------------------------------------------------- construction
Init ==
  /\ pc = "idle"
  /\ op = "none"
  /\ calls = 0
  /\ files \in {{}, {File(Path(RecordingsDir, RecordingZipName), "corrupt", <<>>)}}
  /\ recording_id = 0
  /\ recording_db_path = NoPath
  /\ timestamp = 0
  /\ zip_file_path = NoPath
  /\ sent = <<>>
  /\ receive_outcome = "none"
  /\ extract_attempted = FALSE
  /\ environ \in EnvValues
  /\ dotenv = environ
  /\ old_val = PyNone
  /\ env_before = environ
  /\ exc = NoExc
  /\ result = "none"
  /\ logged = <<>>
  /\ filename = <<>>
  /\ decoded = NoDecoded
  /\ model_max_length = [none |-> TRUE, n |-> 0]
  /\ prompt = <<>>
  /\ tokenizer_prompt = <<>>
  /\ completion = <<>>

\* An exception leaves the function: the call ends with it.
Raise(e) ==
  /\ exc' = e
  /\ result' = "raised"
  /\ pc' = "done"

\* ---------------------------------------------------------- send_recording
CallSendRecording ==
  /\ pc = "idle"
  /\ calls < MaxCalls
  /\ \E id \in RecordingIds : recording_id' = id
  /\ calls' = calls + 1
  /\ op' = "send"
  /\ pc' = "send_export"
  /\ env_before' = environ
  /\ UNCHANGED <<files, recording_db_path, timestamp, zip_file_path, sent,
                 recvVars, environ, dotenv, old_val, exc, result,
                 logged, codecVars, llmVars>>

\* recording_db_path = db.export_recording(recording_id); assert
SendExport ==
  /\ pc = "send_export"
  /\ \/ \E name \in ExportNames(recording_id) :
          /\ recording_db_path' = Path(RootDir, name)
          /\ files' = WriteFile(files, Path(RootDir, name), "db", <<>>)
          /\ pc' = "send_parse"
          /\ UNCHANGED <<exc, result>>
     \/ /\ recording_db_path' = NoPath
        /\ Raise("AssertionError")
        /\ UNCHANGED files
  /\ UNCHANGED <<op, calls, recording_id, timestamp, zip_file_path, sent,
                 recvVars, envVars, logged, codecVars, llmVars>>

\* timestamp = extract_timestamp_from_filename(os.path.basename(...))
SendParse ==
  /\ pc = "send_parse"
  /\ LET r == extract_timestamp_from_filename(recording_db_path.name)
     IN  IF r.ok
         THEN /\ timestamp' = r.value
              /\ pc' = "send_archive"
              /\ UNCHANGED <<exc, result>>
         ELSE /\ Raise("ValueError")
              /\ UNCHANGED timestamp
  /\ UNCHANGED <<op, calls, files, recording_id, recording_db_path,
                 zip_file_path, sent, recvVars, envVars, logged,
                 codecVars, llmVars>>

\* Variant: a failed archive creation also removes the exported file.
SendArchiveRemovesDbOnFailure ==
  /\ pc = "send_archive"
  /\ LET zip_path == Path(RecordingsDir, zip_filename(recording_id, timestamp))
     IN  \/ /\ files' = WriteFile(files, zip_path, "zip",
                                  <<db_filename(recording_id, timestamp)>>)
            /\ pc' = "send_remove_db"
            /\ UNCHANGED <<exc, result>>
         \/ /\ Raise("OSError")
            /\ files' = RemoveFile(files, recording_db_path)
         \/ /\ files' = RemoveFile(WriteFile(files, zip_path, "zip", <<>>),
                                   recording_db_path)
            /\ Raise("OSError")
  /\ UNCHANGED <<op, calls, recording_id, recording_db_path, timestamp,
                 zip_file_path, sent, recvVars, envVars, logged,
                 codecVars, llmVars>>

\* with ZipFile(zip_path, "w", ...) as zip_file: zip_file.write(...).
\* The archive is created with its one entry; or opening it fails and no
\* file appears; or the write fails and the closed archive holds no entry.
SendArchive ==
  /\ pc = "send_archive"
  /\ LET zip_path == Path(RecordingsDir, zip_filename(recording_id, timestamp))
     IN  \/ /\ files' = WriteFile(files, zip_path, "zip",
                                  <<db_filename(recording_id, timestamp)>>)
            /\ pc' = "send_remove_db"
            /\ UNCHANGED <<exc, result>>
         \/ /\ Raise("OSError")
            /\ UNCHANGED files
         \/ /\ files' = WriteFile(files, zip_path, "zip", <<>>)
            /\ Raise("OSError")
  /\ UNCHANGED <<op, calls, recording_id, recording_db_path, timestamp,
                 zip_file_path, sent, recvVars, envVars, logged,
                 codecVars, llmVars>>

\* Variant: the exported file is not removed before the archive is sent.
SendRemoveDbKeepsFile ==
  /\ pc = "send_remove_db"
  /\ zip_file_path' =
       Path(RecordingsDir, zip_filename(recording_id, timestamp))
  /\ pc' = "send_file"
  /\ UNCHANGED <<op, calls, files, sendVars, recvVars, envVars, exc,
                 result, logged, codecVars, llmVars>>

\* os.remove(recording_db_path); return zip_path
SendRemoveDb ==
  /\ pc = "send_remove_db"
  /\ files' = RemoveFile(files, recording_db_path)
  /\ zip_file_path' =
       Path(RecordingsDir, zip_filename(recording_id, timestamp))
  /\ pc' = "send_file"
  /\ UNCHANGED <<op, calls, sendVars, recvVars, envVars, exc,
                 result, logged, codecVars, llmVars>>

\* What subprocess.run(["wormhole", "send", file_path], check=True) does.
SendOutcomes == {"ok", "CalledProcessError", "FileNotFoundError"}

\* send_file: CalledProcessError is re-raised as Exception, anything else
\* leaves send_file as it is.
send_file(outcome) ==
  IF outcome = "CalledProcessError" THEN "Exception"
  ELSE IF outcome = "ok" THEN NoExc ELSE outcome

\* Variant: except subprocess.CalledProcessError
send_recording_catches_CalledProcessError(e) == e = "CalledProcessError"

\* except Exception as exc
send_recording_catches(e) == e \in ExceptionClasses

\* try: send_file(zip_file_path) except Exception as exc: logger.exception
SendFile ==
  /\ pc = "send_file"
  /\ \E outcome \in SendOutcomes :
       LET e == send_file(outcome)
       IN  /\ sent' = Append(sent, [file_path |-> zip_file_path, disk |-> files,
                                  outcome |-> outcome])
           /\ IF e = NoExc
              THEN UNCHANGED <<exc, logged>>
              ELSE IF send_recording_catches(e)
                   THEN /\ logged' = Append(logged, e)
                        /\ UNCHANGED exc
                   ELSE /\ exc' = e
                        /\ UNCHANGED logged
  /\ pc' = "send_finally"
  /\ UNCHANGED <<op, calls, files, recording_id, recording_db_path, timestamp,
                 zip_file_path, recvVars, envVars, result, codecVars,
                 llmVars>>

\* Variant: no finally block, the archive stays.
SendFinallyKeepsArchive ==
  /\ pc = "send_finally"
  /\ result' = IF exc = NoExc THEN "returned" ELSE "raised"
  /\ pc' = "done"
  /\ UNCHANGED <<op, calls, files, sendVars, zip_file_path, recvVars,
                 envVars, exc, logged, codecVars, llmVars>>

\* finally: if os.path.exists(zip_file_path): os.remove(zip_file_path)
SendFinally ==
  /\ pc = "send_finally"
  /\ files' = IF Exists(files, zip_file_path)
              THEN RemoveFile(files, zip_file_path)
              ELSE files
  /\ result' = IF exc = NoExc THEN "returned" ELSE "raised"
  /\ pc' = "done"
  /\ UNCHANGED <<op, calls, sendVars, zip_file_path, recvVars,
                 envVars, exc, logged, codecVars, llmVars>>

\* ------------------------------------------------------- receive_recording
CallReceiveRecording ==
  /\ pc = "idle"
  /\ calls < MaxCalls
  /\ calls' = calls + 1
  /\ op' = "receive"
  /\ zip_file_path' = Path(RecordingsDir, RecordingZipName)
  /\ pc' = "recv_run"
  /\ env_before' = environ
  /\ UNCHANGED <<files, sendVars, recvVars, environ, dotenv, old_val,
                 exc, result, logged, codecVars, llmVars>>

\* What subprocess.run(["wormhole", "receive", "-o", zip_path, code],
\* check=True) does.
ReceiveOutcomes == {"ok", "CalledProcessError", "FileNotFoundError"}

\* The entry lists of the archives a sender may have sent.
ReceivedEntries ==
  {<<db_filename(1, 7)>>, <<RecordingZipName>>, <<>>}

\* Variant: except Exception
receive_recording_catches_Exception(e) == e \in ExceptionClasses

\* except subprocess.CalledProcessError as exc
receive_recording_catches(e) == e = "CalledProcessError"

\* try: subprocess.run(command, check=True) ... except CalledProcessError.
\* On success the tool has written the file it was sent (an archive or
\* not); on a non-zero exit it may have left a partial file.
ReceiveRun ==
  /\ pc = "recv_run"
  /\ \E outcome \in ReceiveOutcomes :
       /\ receive_outcome' = outcome
       /\ IF outcome = "ok"
          THEN /\ \/ \E entries \in ReceivedEntries :
                       files' = WriteFile(files, zip_file_path, "zip", entries)
                  \/ files' = WriteFile(files, zip_file_path, "corrupt", <<>>)
               /\ pc' = "recv_extract"
               /\ UNCHANGED <<exc, logged>>
          ELSE /\ \/ UNCHANGED files
                  \/ /\ outcome = "CalledProcessError"
                     /\ files' = WriteFile(files, zip_file_path, "corrupt", <<>>)
               /\ IF receive_recording_catches(outcome)
                  THEN /\ logged' = Append(logged, outcome)
                       /\ UNCHANGED exc
                  ELSE /\ exc' = outcome
                       /\ UNCHANGED logged
               /\ pc' = "recv_finally"
  /\ UNCHANGED <<op, calls, sendVars, zip_file_path, extract_attempted,
                 envVars, result, codecVars, llmVars>>

\* with ZipFile(zip_path, "r") as zip_ref: zip_ref.extractall(...)
\* BadZipFile is no CalledProcessError: it is not caught.
ReceiveExtract ==
  /\ pc = "recv_extract"
  /\ extract_attempted' = TRUE
  /\ LET f == FileAt(files, zip_file_path)
     IN  IF f.kind = "zip"
         THEN /\ files' = ExtractAll(files, RecordingsDir, f.entries)
              /\ UNCHANGED <<exc, logged>>
         ELSE IF receive_recording_catches("BadZipFile")
              THEN /\ logged' = Append(logged, "BadZipFile")
                   /\ UNCHANGED <<files, exc>>
              ELSE /\ exc' = "BadZipFile"
                   /\ UNCHANGED <<files, logged>>
  /\ pc' = "recv_finally"
  /\ UNCHANGED <<op, calls, sendVars, zip_file_path, receive_outcome,
                 envVars, result,
                 codecVars, llmVars>>

\* Variant: the archive is removed after a clean run only.
ReceiveFinallyOnSuccessOnly ==
  /\ pc = "recv_finally"
  /\ files' = IF Exists(files, zip_file_path) /\ exc = NoExc /\ logged = <<>>
              THEN RemoveFile(files, zip_file_path)
              ELSE files
  /\ result' = IF exc = NoExc THEN "returned" ELSE "raised"
  /\ pc' = "done"
  /\ UNCHANGED <<op, calls, sendVars, zip_file_path, recvVars,
                 envVars, exc, logged, codecVars, llmVars>>

\* finally: if os.path.exists(zip_path): os.remove(zip_path)
ReceiveFinally ==
  /\ pc = "recv_finally"
  /\ files' = IF Exists(files, zip_file_path)
              THEN RemoveFile(files, zip_file_path)
              ELSE files
  /\ result' = IF exc = NoExc THEN "returned" ELSE "raised"
  /\ pc' = "done"
  /\ UNCHANGED <<op, calls, sendVars, zip_file_path, recvVars,
                 envVars, exc, logged, codecVars, llmVars>>

\* ----------------------------------------------------- visualize_recording
\* old_val = os.getenv("DB_FNAME"); config.persist_env("DB_FNAME", db_name);
\* os.environ["DB_FNAME"] = db_name; config.set_db_url; create_engine
CallVisualizeRecording ==
  /\ pc = "idle"
  /\ calls < MaxCalls
  /\ calls' = calls + 1
  /\ op' = "visualize"
  /\ env_before' = environ
  /\ old_val' = environ
  /\ \E db_name \in DbNames :
       /\ dotenv' = db_name
       /\ environ' = db_name
  /\ pc' = "viz_try"
  /\ UNCHANGED <<files, sendVars, zip_file_path, recvVars, exc,
                 result, logged, codecVars, llmVars>>

\* What the body of the try block does: it ends normally, or the migration
\* step raises, or visualize.main raises.
VisualizeOutcomes == {"ok", "migration raises", "visualize.main raises"}

\* try: with Session(engine) ...: os.system("alembic upgrade head");
\* visualize.main(None, False, session)
\* except Exception as exc: logger.exception(exc)
VisualizeTry ==
  /\ pc = "viz_try"
  /\ \E outcome \in VisualizeOutcomes :
       logged' = IF outcome = "ok" THEN logged ELSE Append(logged, "Exception")
  /\ pc' = "viz_finally"
  /\ UNCHANGED <<op, calls, files, sendVars, zip_file_path, recvVars,
                 envVars, exc, result, codecVars, llmVars>>

\* finally: os.environ["DB_FNAME"] = old_val;
\*          config.persist_env("DB_FNAME", old_val)
\* os.environ accepts str values only: assigning None raises TypeError
\* before anything is stored, and persist_env is not reached.
VisualizeFinally ==
  /\ pc = "viz_finally"
  /\ IF old_val = PyNone
     THEN /\ Raise("TypeError")
          /\ UNCHANGED <<environ, dotenv>>
     ELSE /\ environ' = old_val
          /\ dotenv' = old_val
          /\ result' = "returned"
          /\ pc' = "done"
          /\ UNCHANGED exc
  /\ UNCHANGED <<op, calls, files, sendVars, zip_file_path, recvVars,
                 old_val, env_before, logged, codecVars, llmVars>>

\* The call is over; the process is ready for the next one. The disk, the
\* environment and the persisted configuration stay as the call left them.
Return ==
  /\ pc = "done"
  /\ pc' = "idle"
  /\ op' = "none"
  /\ recording_id' = 0
  /\ recording_db_path' = NoPath
  /\ timestamp' = 0
  /\ zip_file_path' = NoPath
  /\ sent' = <<>>
  /\ receive_outcome' = "none"
  /\ extract_attempted' = FALSE
  /\ old_val' = PyNone
  /\ env_before' = environ
  /\ exc' = NoExc
  /\ result' = "none"
  /\ logged' = <<>>
  /\ UNCHANGED <<calls, files, environ, dotenv, codecVars, llmVars>>

\* ------------------------------------------ extract_timestamp_from_filename
\* The strings of at most MaxDigits characters over two digits
DigitStrings == UNION {[1..k -> {"0", "7"}] : k \in 0..MaxDigits}

\* File names put together from the parts of recording_<id>_<timestamp>.db
\* and from parts that differ from them, and every encoded (id, timestamp).
CodecFilenames ==
  {p \o a \o u \o b \o e \o t :
     p \in {RecordingLit, SubSeq(RecordingLit, 1, 9), <<"x">> \o RecordingLit,
            <<"R">> \o Tail(RecordingLit)},
     a \in DigitStrings,
     u \in {<<"_">>, <<>>, <<"-">>},
     b \in DigitStrings,
     e \in {DotDb, DotZip, <<"x", "d", "b">>, <<".", "d">>},
     t \in {<<>>, <<"x">>, <<".", "b", "a", "k">>, <<"_", "1">> \o DotDb}}
    \cup {db_filename(id, ts) : id \in 0..MaxId, ts \in 0..MaxTimestamp}

InitCodec ==
  /\ pc = "idle"
  /\ op = "none"
  /\ calls = 0
  /\ files = {}
  /\ recording_id = 0
  /\ recording_db_path = NoPath
  /\ timestamp = 0
  /\ zip_file_path = NoPath
  /\ sent = <<>>
  /\ receive_outcome = "none"
  /\ extract_attempted = FALSE
  /\ environ = PyNone
  /\ dotenv = PyNone
  /\ old_val = PyNone
  /\ env_before = PyNone
  /\ exc = NoExc
  /\ result = "none"
  /\ logged = <<>>
  /\ filename \in CodecFilenames
  /\ decoded = NoDecoded
  /\ model_max_length = [none |-> TRUE, n |-> 0]
  /\ prompt = <<>>
  /\ tokenizer_prompt = <<>>
  /\ completion = <<>>

\* A call of extract_timestamp_from_filename(filename)
ExtractTimestamp ==
  /\ pc = "idle"
  /\ op' = "extract"
  /\ decoded' = extract_timestamp_from_filename(filename)
  /\ IF decoded'.ok
     THEN /\ result' = "returned"
          /\ pc' = "done"
          /\ UNCHANGED exc
     ELSE Raise("ValueError")
  /\ UNCHANGED <<calls, files, sendVars, zip_file_path, recvVars, envVars,
                 logged, filename, llmVars>>

NextCodec == ExtractTimestamp

SpecCodec == InitCodec /\ [][NextCodec]_vars

\* ------------------------------------------------------------ get_completion
\* The values model_max_length is constructed with: None, or an int
MaxLengths ==
  {[none |-> TRUE, n |-> 0]}
    \cup {[none |-> FALSE, n |-> k] : k \in (-1)..(MaxPromptLen + 1)}

Prompts == UNION {[1..k -> {"a", "b"}] : k \in 0..MaxPromptLen}

\* What the model may generate and the tokenizer decode
Completions == {<<>>, <<"a">>}

\* prompt[:m], Python's slice up to m (a negative m counts from the end)
PySliceTo(s, m) ==
  IF m >= 0
  THEN SubSeq(s, 1, IF m < Len(s) THEN m ELSE Len(s))
  ELSE SubSeq(s, 1, IF Len(s) + m > 0 THEN Len(s) + m ELSE 0)

\* Variant: >= for >, and one character fewer kept.
truncate_off_by_one(p, m) ==
  IF ~m.none /\ m.n # 0 /\ Len(p) >= m.n THEN PySliceTo(p, m.n - 1) ELSE p

\* if model_max_length and len(prompt) > model_max_length:
\*     prompt = prompt[:model_max_length]
truncate(p, m) ==
  IF ~m.none /\ m.n # 0 /\ Len(p) > m.n THEN PySliceTo(p, m.n) ELSE p

InitLLM ==
  /\ pc = "idle"
  /\ op = "none"
  /\ calls = 0
  /\ files = {}
  /\ recording_id = 0
  /\ recording_db_path = NoPath
  /\ timestamp = 0
  /\ zip_file_path = NoPath
  /\ sent = <<>>
  /\ receive_outcome = "none"
  /\ extract_attempted = FALSE
  /\ environ = PyNone
  /\ dotenv = PyNone
  /\ old_val = PyNone
  /\ env_before = PyNone
  /\ exc = NoExc
  /\ result = "none"
  /\ logged = <<>>
  /\ filename = <<>>
  /\ decoded = NoDecoded
  /\ model_max_length \in MaxLengths
  /\ prompt = <<>>
  /\ tokenizer_prompt = <<>>
  /\ completion = <<>>

\* A call of get_completion(prompt, max_tokens): the prompt is truncated,
\* tokenized, and the decoded new tokens are returned.
GetCompletion ==
  /\ pc = "idle"
  /\ op' = "complete"
  /\ \E p \in Prompts :
       /\ prompt' = p
       /\ tokenizer_prompt' = truncate(p, model_max_length)
  /\ \E c \in Completions : completion' = c
  /\ result' = "returned"
  /\ pc' = "done"
  /\ UNCHANGED <<calls, files, sendVars, zip_file_path, recvVars, envVars,
                 exc, logged, codecVars, model_max_length>>

NextLLM == GetCompletion

SpecLLM == InitLLM /\ [][NextLLM]_vars

\* ------------------------------------------------------------ the process
Next ==
  \/ CallSendRecording
  \/ SendExport
  \/ SendParse
  \/ SendArchive
  \/ SendRemoveDb
  \/ SendFile
  \/ SendFinally
  \/ CallReceiveRecording
  \/ ReceiveRun
  \/ ReceiveExtract
  \/ ReceiveFinally
  \/ CallVisualizeRecording
  \/ VisualizeTry
  \/ VisualizeFinally
  \/ Return

Spec == Init /\ [][Next]_vars

\* ================================================================== claims
SendDone == pc = "done" /\ op = "send"

ReceiveDone == pc = "done" /\ op = "receive"

ArchivePath == Path(RecordingsDir, zip_filename(recording_id, timestamp))

ReceivedZipPath == Path(RecordingsDir, RecordingZipName)

\* C1: when send_recording has completed (the transfer succeeded, or its
\* failure was swallowed), neither the exported database file nor the
\* archive recording_<id>_<timestamp>.zip is on the disk.
C1_NoFilesAfterSend ==
  (SendDone /\ result = "returned")
    => /\ ~Exists(files, recording_db_path)
       /\ ~Exists(files, ArchivePath)

\* a send whose transfer failed, was swallowed, and left nothing behind
C1_Witness ==
  /\ SendDone
  /\ result = "returned"
  /\ Len(sent) = 1
  /\ sent[1].outcome = "CalledProcessError"
  /\ Exists(sent[1].disk, ArchivePath)
  /\ ~Exists(files, ArchivePath)

\* C2: when visualize_recording has ended, DB_FNAME has the value it had
\* before the call, whatever that was (unset included) and whatever the
\* migration step or visualize.main did.
C2_EnvRestored ==
  (pc = "done" /\ op = "visualize") => environ = env_before

AllDigits(s) == Len(s) >= 1 /\ \A i \in 1..Len(s) : s[i] \in Digit

\* s is recording_<digits>_<digits>.db and nothing else
IsExactForm(s) ==
  \E i, j \in 1..Len(s) :
    /\ i < j
    /\ SubSeq(s, 1, Len(RecordingLit)) = RecordingLit
    /\ AllDigits(SubSeq(s, Len(RecordingLit) + 1, i - 1))
    /\ s[i] = "_"
    /\ AllDigits(SubSeq(s, i + 1, j - 1))
    /\ SubSeq(s, j, Len(s)) = DotDb

\* C3: extract_timestamp_from_filename raises ValueError for every file
\* name that is not exactly recording_<digits>_<digits>.db.
C3_RejectsInexactNames ==
  (pc = "done" /\ op = "extract" /\ ~IsExactForm(filename))
    => (~decoded.ok /\ result = "raised" /\ exc = "ValueError")

\* C4: when receive_recording has ended, however it ended, recording.zip
\* is not in the recordings directory.
C4_NoArchiveAfterReceive ==
  ReceiveDone => ~Exists(files, ReceivedZipPath)

\* a receive whose extraction failed on a file that was on the disk
C4_Witness ==
  /\ ReceiveDone
  /\ receive_outcome = "ok"
  /\ extract_attempted
  /\ exc = "BadZipFile"
  /\ ~Exists(files, ReceivedZipPath)

\* C5: in send_recording every error of the send step is logged and
\* swallowed: no exception is pending once the try statement is left, the
\* call returns normally, and the archive is removed all the same.
C5_SendFailureSwallowed ==
  (op = "send" /\ Len(sent) >= 1 /\ sent[Len(sent)].outcome # "ok")
    => /\ exc = NoExc
       /\ Len(logged) = 1
       /\ pc = "done" => (result = "returned" /\ ~Exists(files, ArchivePath))

\* the tool could not be started, and the caller saw a normal return
C5_Witness ==
  /\ SendDone
  /\ Len(sent) = 1
  /\ sent[1].outcome = "FileNotFoundError"
  /\ logged = <<"FileNotFoundError">>
  /\ result = "returned"

\* C6 as stated: the archive is extracted only when the receive step
\* succeeded; whenever the receive step fails, extraction is not attempted,
\* the failure is logged, and the call returns without raising.
C6_AnyReceiveFailureSwallowed ==
  /\ (op = "receive" /\ extract_attempted) => receive_outcome = "ok"
  /\ (op = "receive" /\ receive_outcome \notin {"none", "ok"})
       => /\ ~extract_attempted
          /\ Len(logged) = 1
          /\ exc = NoExc
          /\ pc = "done" => result = "returned"

\* C6 amended: the archive is extracted only when the receive step
\* succeeded; a non-zero exit of the tool (CalledProcessError) skips the
\* extraction, is logged, and the call returns normally after the cleanup;
\* any other failure of the receive step skips the extraction too, is not
\* logged, and is raised to the caller after the cleanup.
C6_ReceiveFailure ==
  /\ (op = "receive" /\ extract_attempted) => receive_outcome = "ok"
  /\ (op = "receive" /\ receive_outcome = "CalledProcessError")
       => /\ ~extract_attempted
          /\ logged = <<"CalledProcessError">>
          /\ exc = NoExc
          /\ pc = "done"
               => (result = "returned" /\ ~Exists(files, ReceivedZipPath))
  /\ (op = "receive" /\ receive_outcome = "FileNotFoundError")
       => /\ ~extract_attempted
          /\ logged = <<>>
          /\ exc = "FileNotFoundError"
          /\ pc = "done"
               => (result = "raised" /\ ~Exists(files, ReceivedZipPath))

\* a non-zero exit that was logged and swallowed
C6_Witness ==
  /\ ReceiveDone
  /\ receive_outcome = "CalledProcessError"
  /\ ~extract_attempted
  /\ result = "returned"

\* C7: decoding the encoded file name of any (id, timestamp) gives the
\* timestamp back.
C7_RoundTrip ==
  (pc = "done" /\ op = "extract")
    => \A id \in 0..MaxId, ts \in 0..MaxTimestamp :
         filename = db_filename(id, ts)
           => (decoded.ok /\ decoded.value = ts /\ result = "returned")

\* a name with a several-digit id and timestamp that differ was decoded
C7_Witness ==
  /\ pc = "done"
  /\ op = "extract"
  /\ \E id \in 10..MaxId, ts \in 100..MaxTimestamp :
       /\ id # ts
       /\ filename = db_filename(id, ts)
       /\ decoded.value = ts

\* The export named its file recording_<id>_<ts>.db for the id sent
ExportedAs(ts) == recording_db_path.name = db_filename(recording_id, ts)

ArchiveOf(disk, ts) ==
  /\ Exists(disk, Path(RecordingsDir, zip_filename(recording_id, ts)))
  /\ LET f == FileAt(disk, Path(RecordingsDir, zip_filename(recording_id, ts)))
     IN  f.kind = "zip" /\ f.entries = <<db_filename(recording_id, ts)>>

\* C8: when the export is named recording_<id>_<timestamp>.db,
\* send_recording(id) creates recording_<id>_<timestamp>.zip with the one
\* entry recording_<id>_<timestamp>.db, and calls the transfer send once,
\* with that archive's path, when the archive is on the disk and the
\* exported database file no longer is.
C8_ArchiveThenSendOnce ==
  \A ts \in 0..MaxExportTs :
    (op = "send" /\ ExportedAs(ts))
      => /\ pc \in {"send_remove_db", "send_file"} => ArchiveOf(files, ts)
         /\ Len(sent) <= 1
         /\ (pc = "send_finally" \/ (pc = "done" /\ result = "returned"))
              => Len(sent) = 1
         /\ \A i \in 1..Len(sent) :
              /\ sent[i].file_path =
                   Path(RecordingsDir, zip_filename(recording_id, ts))
              /\ ArchiveOf(sent[i].disk, ts)
              /\ ~Exists(sent[i].disk, recording_db_path)

\* recording 12 exported with a two-digit timestamp was sent and is done
C8_Witness ==
  /\ SendDone
  /\ result = "returned"
  /\ recording_id >= 10
  /\ \E ts \in 10..MaxExportTs : ExportedAs(ts) /\ ArchiveOf(sent[1].disk, ts)
  /\ sent[1].outcome = "ok"

\* C9 as stated: for every configured max_length the tokenizer gets the
\* first max_length characters of a longer prompt, and gets a prompt that
\* is not longer unchanged.
C9_TruncatesForEveryMaxLength ==
  (pc = "done" /\ op = "complete" /\ ~model_max_length.none
     /\ model_max_length.n >= 0)
    => /\ Len(prompt) > model_max_length.n
            => tokenizer_prompt = SubSeq(prompt, 1, model_max_length.n)
       /\ Len(prompt) <= model_max_length.n => tokenizer_prompt = prompt

\* C9 amended: for every positive max_length the tokenizer gets the first
\* max_length characters of a longer prompt and gets a prompt that is not
\* longer unchanged; with max_length 0 or None it gets every prompt
\* unchanged.
C9_TruncatesForPositiveMaxLength ==
  (pc = "done" /\ op = "complete")
    => /\ (~model_max_length.none /\ model_max_length.n > 0)
            => /\ Len(prompt) > model_max_length.n
                    => /\ tokenizer_prompt
                            = SubSeq(prompt, 1, model_max_length.n)
                       /\ Len(tokenizer_prompt) = model_max_length.n
               /\ Len(prompt) <= model_max_length.n
                    => tokenizer_prompt = prompt
       /\ (model_max_length.none \/ model_max_length.n = 0)
            => tokenizer_prompt = prompt

\* a prompt longer than a positive max_length was cut
C9_Witness ==
  /\ pc = "done"
  /\ op = "complete"
  /\ ~model_max_length.none
  /\ model_max_length.n = 2
  /\ Len(prompt) = 4
  /\ Len(tokenizer_prompt) = 2

\* the parse of the exported name failed, or the archive creation did
ParseOrArchiveFailed == exc \in {"ValueError", "OSError"}

\* C10: in send_recording a file name parsing failure or an archive
\* creation failure is raised to the caller, the transfer send is not
\* called, and the exported database file stays on the disk; in no other
\* case does the exported file outlive the call.
C10_ExportFailurePropagates ==
  SendDone
    => /\ ParseOrArchiveFailed
            => /\ result = "raised"
               /\ sent = <<>>
               /\ logged = <<>>
               /\ Exists(files, recording_db_path)
       /\ Exists(files, recording_db_path) => ParseOrArchiveFailed

\* the archive could not be written and the exported file is still there
C10_Witness ==
  /\ SendDone
  /\ exc = "OSError"
  /\ result = "raised"
  /\ Exists(files, recording_db_path)

====
